---- MODULE Spec2Model ----
(***************************************************************************)
(* Resource planner: employees are assigned to dated, timed duties by a    *)
(* CP-SAT model that constraint modules fill in (apply) and whose          *)
(* solutions the same modules re-check (validate).                         *)
(*                                                                         *)
(* Representation.                                                         *)
(*  - A calendar date "YYYY-MM-DD" is the number of the day (1 = the first  *)
(*    day of the horizon).  The code compares and sorts the strings; for   *)
(*    zero padded ISO dates that order is the order of the day numbers.    *)
(*  - A time "HH:MM" is the number of minutes since midnight.              *)
(*    datetime.strptime(t, "%H:%M") is day 0 (1900-01-01) plus t minutes;  *)
(*    datetime.strptime(d + " " + t, ...) is d * 1440 + t minutes.         *)
(*  - A duty code (a label such as "DIS") is its rank in the alphabetical  *)
(*    order of the labels, which is the order the code sorts them in.      *)
(*  - A CP-SAT boolean variable is its key <<employee id, duty id>> in the *)
(*    planner's assignments dictionary; a linear constraint is the record  *)
(*    [terms, op, rhs] meaning  sum of terms  op  rhs.                     *)
(***************************************************************************)
EXTENDS Integers, Sequences, FiniteSets, TLC

VARIABLES
    employees,      \* ResourcePlanner.employees (list of employee dicts)
    duties,         \* ResourcePlanner.duties (list of duty dicts)
    constraints,    \* ResourcePlanner.constraints (list of module instances)
    matrix,         \* keys of the assignments dictionary the modules share
    model,          \* constraints added to the CpModel, in order of addition
    values,         \* solver.Value of every variable after a successful solve
    assignments,    \* ResourcePlanner.assignments after solve(): the list
    status,         \* what solve() returned ("NONE" before it was called)
    results,        \* what validate / validate_solution returned
    applied,        \* the apply() calls so far, each with the keys it saw
    reported,       \* what the solver reported to the last solve()
    slot,           \* what self.assignments refers to: the dict or a list
    error,          \* the exception the last call raised ("none": returned)
    config,         \* the configuration dictionary of the ConfigLoader
    pc              \* position of the caller that drives the planner

vars == <<employees, duties, constraints, matrix, model, values, assignments,
          status, results, applied, reported, slot, error, config, pc>>

----------------------------------------------------------------------------
(* Bounds of the model *)

MaxEmployees == 2
MaxDuties == 2
MaxDate == 3
MaxRequired == 2
MaxConstraints == 1
MaxRecords == 2
MaxDaysInARow == 2
Horizon == 7

(* Program constants *)

MinutesPerDay == 1440
MinutesPerHour == 60
DefaultMaxDeviationPercent == 20
SCALE == 1000
DefaultMinRestHours == 8

----------------------------------------------------------------------------
(* Generic helpers *)

Range(s) == {s[i] : i \in 1..Len(s)}

RECURSIVE SumSeq(_)
SumSeq(s) == IF s = <<>> THEN 0 ELSE Head(s) + SumSeq(Tail(s))

RECURSIVE Flatten(_)
Flatten(ss) == IF ss = <<>> THEN <<>> ELSE Head(ss) \o Flatten(Tail(ss))

\* All sequences over S of length at most n
SeqsUpTo(S, n) == UNION {[1..k -> S] : k \in 0..n}

\* sorted(set(...)) of a set of integers
RECURSIVE SortedSeqOf(_)
SortedSeqOf(S) ==
    IF S = {} THEN <<>>
    ELSE LET m == CHOOSE x \in S : \A y \in S : x <= y
         IN <<m>> \o SortedSeqOf(S \ {m})

----------------------------------------------------------------------------
(* Domain records *)

Names == <<"Anna", "Ben", "Clara", "David">>

Employee(id, maxDays, blocked) ==
    [id |-> id, name |-> Names[(id % 4) + 1], max_days_in_a_row |-> maxDays,
     blocked_days |-> blocked, max_hours_per_day |-> 8,
     max_hours_in_period |-> 40]

\* working_minutes as the configuration loader derives it
calculate_working_minutes(start, end) ==
    IF end < start THEN (end + MinutesPerDay) - start ELSE end - start

Duty(id, code, date, required, start, end) ==
    [id |-> id, code |-> code, date |-> date, required_employees |-> required,
     start_time |-> start, end_time |-> end,
     working_minutes |-> calculate_working_minutes(start, end)]

----------------------------------------------------------------------------
(* The CP-SAT model *)

\* model.Add(sum of coefs[i] * variable terms[i]  op  rhs)
LinW(terms, coefs, op, rhs) ==
    [terms |-> terms, coefs |-> coefs, op |-> op, rhs |-> rhs]

\* model.Add over a plain sum of variables
Lin(terms, op, rhs) == LinW(terms, [i \in 1..Len(terms) |-> 1], op, rhs)

\* value of a linear constraint under a valuation of the variables
Holds(c, val) ==
    LET s == SumSeq([i \in 1..Len(c.terms) |-> c.coefs[i] * val[c.terms[i]]])
    IN CASE c.op = "eq" -> s = c.rhs
         [] c.op = "le" -> s <= c.rhs
         [] c.op = "minimize" -> TRUE
         [] c.op = "invalid" -> FALSE

Satisfies(val, m) == \A i \in 1..Len(m) : Holds(m[i], val)

----------------------------------------------------------------------------
(* Constraint modules: apply().  Each returns the constraints the module   *)
(* adds to the model, in the order of its loops.  emps and dts are the     *)
(* module's employee and duty lists (the planner's own list objects).      *)

\* A module instance: its class, the package of the class (the repository
\* holds the constraints package twice, "src.resource_planner" beside the
\* planner and "resource_planner.src"), and min_rest_hours * 60
Module(kind, pkg, minRestHours) ==
    [kind |-> kind, pkg |-> pkg, min_rest_minutes |-> minRestHours * 60,
     max_deviation_percent |-> DefaultMaxDeviationPercent]

\* WorkloadBalanceConstraint(..., max_deviation_percent=maxDeviation)
BalanceModule(pkg, maxDeviation) ==
    [Module("WorkloadBalanceConstraint", pkg, DefaultMinRestHours)
        EXCEPT !.max_deviation_percent = maxDeviation]

Planner == "src.resource_planner"
Standalone == "resource_planner.src"

\* faulty variant: the sum is bounded by the required number, not equal to it
RequiredEmployeesApplyAtMost(emps, dts) ==
    [i \in 1..Len(dts) |->
        Lin([j \in 1..Len(emps) |-> <<emps[j].id, dts[i].id>>],
            "le", dts[i].required_employees)]

\* RequiredEmployeesConstraint.apply
RequiredEmployeesApply(emps, dts) ==
    [i \in 1..Len(dts) |->
        Lin([j \in 1..Len(emps) |-> <<emps[j].id, dts[i].id>>],
            "eq", dts[i].required_employees)]

\* faulty variant: the loop over the duties stops one duty short
BlockedDaysApplyShort(emps, dts) ==
    Flatten([j \in 1..Len(emps) |->
        Flatten([i \in 1..(Len(dts) - 1) |->
            IF dts[i].date \in emps[j].blocked_days
            THEN << Lin(<< <<emps[j].id, dts[i].id>> >>, "eq", 0) >>
            ELSE <<>>])])

\* BlockedDaysConstraint.apply
BlockedDaysApply(emps, dts) ==
    Flatten([j \in 1..Len(emps) |->
        Flatten([i \in 1..Len(dts) |->
            IF dts[i].date \in emps[j].blocked_days
            THEN << Lin(<< <<emps[j].id, dts[i].id>> >>, "eq", 0) >>
            ELSE <<>>])])

\* dict keys in insertion order: the dates of the duties, first seen first
RECURSIVE DatesInOrder(_)
DatesInOrder(dts) ==
    IF dts = <<>> THEN <<>>
    ELSE LET rest == DatesInOrder(SubSeq(dts, 1, Len(dts) - 1))
             d == dts[Len(dts)].date
         IN IF d \in Range(rest) THEN rest ELSE Append(rest, d)

\* ids of the duties of one date, in duty-list order
DutyIdsOn(dts, date) ==
    LET on == SelectSeq(dts, LAMBDA d : d.date = date)
    IN [i \in 1..Len(on) |-> on[i].id]

\* OneDutyPerDayConstraint.apply
OneDutyPerDayApply(emps, dts) ==
    LET dates == DatesInOrder(dts)
    IN Flatten([j \in 1..Len(emps) |->
         [k \in 1..Len(dates) |->
            LET ids == DutyIdsOn(dts, dates[k])
            IN Lin([i \in 1..Len(ids) |-> <<emps[j].id, ids[i]>>], "le", 1)]])

\* duty_times of RestTimeConstraint.apply/validate (src/resource_planner):
\* times of day only, the duty's date is not read; a later duty with the
\* same id overwrites the entry
DutyTimes(dts, id) ==
    LET k == CHOOSE k \in 1..Len(dts) :
                 /\ dts[k].id = id
                 /\ \A l \in (k + 1)..Len(dts) : dts[l].id # id
        start == dts[k].start_time
        end == dts[k].end_time
    IN [start |-> start,
        end |-> IF end < start THEN end + MinutesPerDay ELSE end]

\* RestTimeConstraint.apply (src/resource_planner)
RestTimeApply(emps, dts, minRest) ==
    Flatten([j \in 1..Len(emps) |->
      Flatten([a \in 1..Len(dts) |->
        Flatten([b \in 1..Len(dts) |->
          LET diff == DutyTimes(dts, dts[b].id).start
                        - DutyTimes(dts, dts[a].id).end
          IN IF dts[a].id # dts[b].id /\ 0 < diff /\ diff < minRest
             THEN << Lin(<< <<emps[j].id, dts[a].id>>,
                            <<emps[j].id, dts[b].id>> >>, "le", 1) >>
             ELSE <<>>])])])

\* sorted(set(duty['date'] for duty in self.duties))
DatesSorted(dts) == SortedSeqOf({dts[i].date : i \in 1..Len(dts)})

\* dates_sorted[i:i + max_days + 1] for the 0-based index i
Window(dates, i, maxDays) ==
    SubSeq(dates, i + 1, IF i + maxDays + 1 < Len(dates)
                         THEN i + maxDays + 1 ELSE Len(dates))

\* len(range(len(dates_sorted) - max_days + 1)): the number of windows
WindowCount(dates, maxDays) ==
    IF Len(dates) - maxDays + 1 > 0 THEN Len(dates) - maxDays + 1 ELSE 0

\* faulty variant: range(len(dates_sorted) - max_days - 1), the last windows missing
MaxDaysInARowApplyShortRange(emps, dts) ==
    LET dates == DatesSorted(dts)
    IN Flatten([j \in 1..Len(emps) |->
         LET maxDays == emps[j].max_days_in_a_row
         IN [i \in 1..(WindowCount(dates, maxDays) - 2) |->
               LET w == Window(dates, i - 1, maxDays)
                   ids == Flatten([k \in 1..Len(w) |-> DutyIdsOn(dts, w[k])])
               IN Lin([t \in 1..Len(ids) |-> <<emps[j].id, ids[t]>>],
                      "le", maxDays)]])

\* MaxDaysInARowConstraint.apply
MaxDaysInARowApply(emps, dts) ==
    LET dates == DatesSorted(dts)
    IN Flatten([j \in 1..Len(emps) |->
         LET maxDays == emps[j].max_days_in_a_row
         IN [i \in 1..WindowCount(dates, maxDays) |->
               LET w == Window(dates, i - 1, maxDays)
                   ids == Flatten([k \in 1..Len(w) |-> DutyIdsOn(dts, w[k])])
               IN Lin([t \in 1..Len(ids) |-> <<emps[j].id, ids[t]>>],
                      "le", maxDays)]])

\* _parse_datetime(date, time) of the standalone RestTimeConstraint
parse_datetime(date, time) == date * MinutesPerDay + time

\* _calculate_duty_times of the standalone RestTimeConstraint: date and time
calculate_duty_times(dts, id) ==
    LET k == CHOOSE k \in 1..Len(dts) :
                 /\ dts[k].id = id
                 /\ \A l \in (k + 1)..Len(dts) : dts[l].id # id
        start == parse_datetime(dts[k].date, dts[k].start_time)
        end == parse_datetime(dts[k].date, dts[k].end_time)
    IN [start |-> start,
        end |-> IF end < start THEN end + MinutesPerDay ELSE end]

\* RestTimeConstraint.apply (resource_planner.src); the variables are looked
\* up by the string "<employee id>_<duty id>", here the same pair
RestTimeApplyDated(emps, dts, minRest) ==
    Flatten([j \in 1..Len(emps) |->
      Flatten([a \in 1..Len(dts) |->
        Flatten([b \in 1..Len(dts) |->
          LET diff == calculate_duty_times(dts, dts[b].id).start
                        - calculate_duty_times(dts, dts[a].id).end
          IN IF dts[a].id # dts[b].id /\ 0 < diff /\ diff < minRest
             THEN << Lin(<< <<emps[j].id, dts[a].id>>,
                            <<emps[j].id, dts[b].id>> >>, "le", 1) >>
             ELSE <<>>])])])

\* MaxWorkingHoursInPeriodConstraints.apply
MaxWorkingHoursApply(emps, dts) ==
    [j \in 1..Len(emps) |->
        LinW([i \in 1..Len(dts) |-> <<emps[j].id, dts[i].id>>],
             [i \in 1..Len(dts) |-> dts[i].working_minutes],
             "le", emps[j].max_hours_in_period * MinutesPerHour)]

\* model.Minimize(max_abs_scaled_deviation): the objective, with what
\* _calculate_workloads ties each employee's utilization variable to
Minimize(loads) ==
    [terms |-> <<>>, coefs |-> <<>>, op |-> "minimize", rhs |-> 0,
     loads |-> loads]

\* a model the solver rejects as invalid (a division by the constant 0)
InvalidModel ==
    [terms |-> <<>>, coefs |-> <<>>, op |-> "invalid", rhs |-> 0]

\* WorkloadBalanceConstraint.apply of resource_planner/src: the workload
\* variable of an employee has the domain 0..max_hours_in_period * 60 and
\* equals the employee's assigned minutes; every other variable is defined
\* from it and bounded only by the objective
WorkloadBalanceApply(emps, dts) ==
    LET load(j) ==
            [terms |-> [i \in 1..Len(dts) |-> <<emps[j].id, dts[i].id>>],
             coefs |-> [i \in 1..Len(dts) |-> dts[i].working_minutes],
             cap |-> emps[j].max_hours_in_period * MinutesPerHour]
    IN [j \in 1..Len(emps) |->
            LinW(load(j).terms, load(j).coefs, "le", load(j).cap)]
       \o (IF emps = <<>> THEN <<InvalidModel>> ELSE <<>>)
       \o <<Minimize([j \in 1..Len(emps) |-> load(j)])>>

\* constraint.apply() of a registered module
Apply(c, emps, dts) ==
    CASE c.kind = "RequiredEmployeesConstraint" ->
            RequiredEmployeesApply(emps, dts)
      [] c.kind = "BlockedDaysConstraint" -> BlockedDaysApply(emps, dts)
      [] c.kind = "OneDutyPerDayConstraint" -> OneDutyPerDayApply(emps, dts)
      [] c.kind = "RestTimeConstraint" /\ c.pkg = Planner ->
            RestTimeApply(emps, dts, c.min_rest_minutes)
      [] c.kind = "RestTimeConstraint" /\ c.pkg = Standalone ->
            RestTimeApplyDated(emps, dts, c.min_rest_minutes)
      [] c.kind = "MaxDaysInARowConstraint" -> MaxDaysInARowApply(emps, dts)
      [] c.kind = "MaxWorkingHoursInPeriodConstraints" ->
            MaxWorkingHoursApply(emps, dts)
      [] c.kind = "WorkloadBalanceConstraint" ->
            WorkloadBalanceApply(emps, dts)

----------------------------------------------------------------------------
(* Constraint modules: validate(list) *)

\* sorted(items, key=...): stable; ps is a sequence of [key, item]
RECURSIVE SortByKey(_)
SortByKey(ps) ==
    IF ps = <<>> THEN <<>>
    ELSE LET front == SortByKey(SubSeq(ps, 1, Len(ps) - 1))
             x == ps[Len(ps)]
             n == Cardinality({i \in 1..Len(front) : front[i].key <= x.key})
         IN SubSeq(front, 1, n) \o <<x>> \o SubSeq(front, n + 1, Len(front))

\* BaseConstraint.get_employee_assignments
get_employee_assignments(emps, list, employeeId) ==
    IF ~ \E j \in 1..Len(emps) : emps[j].id = employeeId THEN <<>>
    ELSE SelectSeq(list, LAMBDA r :
            \E k \in 1..Len(r.employees) :
                r.employees[k].employee_id = employeeId)

\* RequiredEmployeesConstraint._count_assignments_per_duty, .get(id, 0)
DutyCount(list, dutyId) ==
    LET rs == SelectSeq(list, LAMBDA r : r.duty_id = dutyId)
    IN IF rs = <<>> THEN 0 ELSE Len(rs[Len(rs)].employees)

\* RequiredEmployeesConstraint.validate
RequiredEmployeesValidate(dts, list) ==
    \A i \in 1..Len(dts) :
        (\E k \in 1..Len(list) : list[k].duty_id = dts[i].id)
        => DutyCount(list, dts[i].id) = dts[i].required_employees

\* BlockedDaysConstraint.validate
BlockedDaysValidate(emps, list) ==
    \A j \in 1..Len(emps) :
        LET mine == get_employee_assignments(emps, list, emps[j].id)
        IN \A k \in 1..Len(mine) : mine[k].date \notin emps[j].blocked_days

\* OneDutyPerDayConstraint.validate: the check is commented out
OneDutyPerDayValidate(emps, list) == TRUE

\* RestTimeConstraint.validate (src.resource_planner): the times are those
\* of the duty with the record's duty_id, times of day only
RestTimeValidate(emps, dts, list, minRest) ==
    \A j \in 1..Len(emps) :
        LET mine == get_employee_assignments(emps, list, emps[j].id)
            sorted == SortByKey([k \in 1..Len(mine) |->
                [key |-> DutyTimes(dts, mine[k].duty_id).start,
                 item |-> mine[k]]])
        IN \A k \in 1..(Len(sorted) - 1) :
             LET diff == DutyTimes(dts, sorted[k + 1].item.duty_id).start
                           - DutyTimes(dts, sorted[k].item.duty_id).end
             IN ~ (0 < diff /\ diff < minRest)

\* RestTimeConstraint.validate (resource_planner.src): the times are read
\* from the records, the end on the record's own date
RestTimeValidateDated(emps, list, minRest) ==
    \A j \in 1..Len(emps) :
        LET mine == get_employee_assignments(emps, list, emps[j].id)
            sorted == SortByKey([k \in 1..Len(mine) |->
                [key |-> parse_datetime(mine[k].date, mine[k].start_time),
                 item |-> mine[k]]])
        IN \A k \in 1..(Len(sorted) - 1) :
             LET current == sorted[k].item
                 next_duty == sorted[k + 1].item
                 rest == parse_datetime(next_duty.date, next_duty.start_time)
                         - parse_datetime(current.date, current.end_time)
             IN ~ (rest < minRest)

\* faulty variant: the window is dates_sorted[i:i + max_days], one date short
MaxDaysInARowValidateNarrow(emps, dts, list) ==
    LET dates == DatesSorted(dts)
    IN \A j \in 1..Len(emps) :
         LET maxDays == emps[j].max_days_in_a_row
             mine == get_employee_assignments(emps, list, emps[j].id)
             by_date == {mine[k].date : k \in 1..Len(mine)}
         IN \A i \in 1..WindowCount(dates, maxDays) :
              LET w == Window(dates, i - 1, maxDays - 1)
                  days_worked ==
                      Cardinality({k \in 1..Len(w) : w[k] \in by_date})
              IN ~ (days_worked > maxDays)

\* MaxDaysInARowConstraint.validate
MaxDaysInARowValidate(emps, dts, list) ==
    LET dates == DatesSorted(dts)
    IN \A j \in 1..Len(emps) :
         LET maxDays == emps[j].max_days_in_a_row
             mine == get_employee_assignments(emps, list, emps[j].id)
             by_date == {mine[k].date : k \in 1..Len(mine)}
         IN \A i \in 1..WindowCount(dates, maxDays) :
              LET w == Window(dates, i - 1, maxDays)
                  days_worked ==
                      Cardinality({k \in 1..Len(w) : w[k] \in by_date})
              IN ~ (days_worked > maxDays)

\* BaseConstraint.get_duty_by_id, for an id of the duty list
get_duty_by_id(dts, dutyId) ==
    dts[CHOOSE i \in 1..Len(dts) :
            /\ dts[i].id = dutyId
            /\ \A k \in 1..(i - 1) : dts[k].id # dutyId]

\* total_minutes of MaxWorkingHoursInPeriodConstraints.validate
AssignedMinutes(emps, dts, list, employeeId) ==
    LET mine == get_employee_assignments(emps, list, employeeId)
    IN SumSeq([k \in 1..Len(mine) |->
                  get_duty_by_id(dts, mine[k].duty_id).working_minutes])

\* faulty variant: the minutes are compared with the hours, unconverted
MaxWorkingHoursValidateUnconverted(emps, dts, list) ==
    \A j \in 1..Len(emps) :
        ~ (AssignedMinutes(emps, dts, list, emps[j].id)
              > emps[j].max_hours_in_period)

\* MaxWorkingHoursInPeriodConstraints.validate:
\* total_minutes / 60 > max_hours_in_period returns False
MaxWorkingHoursValidate(emps, dts, list) ==
    \A j \in 1..Len(emps) :
        ~ (AssignedMinutes(emps, dts, list, emps[j].id)
              > emps[j].max_hours_in_period * MinutesPerHour)

\* validate() of MaxWorkingHoursInPeriodConstraints raises TypeError when
\* get_duty_by_id() returns None for a record of an employee it reaches:
\* no earlier employee raised or made it return False
MaxWorkingHoursRaises(emps, dts, list) ==
    LET unknown(j) ==
            \E r \in Range(get_employee_assignments(emps, list, emps[j].id)) :
                \A i \in 1..Len(dts) : dts[i].id # r.duty_id
        exceeds(j) ==
            AssignedMinutes(emps, dts, list, emps[j].id)
               > emps[j].max_hours_in_period * MinutesPerHour
    IN \E j \in 1..Len(emps) :
          /\ unknown(j)
          /\ \A k \in 1..(j - 1) : ~ unknown(k) /\ ~ exceeds(k)

\* validate() of RestTimeConstraint (src/resource_planner) raises KeyError
\* when the sort key looks up duty_times for a duty id that is not in the
\* duty list, in a record of an employee it reaches
RestTimeRaises(emps, dts, list, minRest) ==
    LET unknown(j) ==
            \E r \in Range(get_employee_assignments(emps, list, emps[j].id)) :
                \A i \in 1..Len(dts) : dts[i].id # r.duty_id
    IN \E j \in 1..Len(emps) :
          /\ unknown(j)
          /\ \A k \in 1..(j - 1) :
                ~ unknown(k)
                   /\ RestTimeValidate(<<emps[k]>>, dts, list, minRest)

\* the exception constraint.validate(list) raises, "none" when it returns
ValidateError(c, emps, dts, list) ==
    IF c.kind = "MaxWorkingHoursInPeriodConstraints"
          /\ MaxWorkingHoursRaises(emps, dts, list)
    THEN "TypeError"
    ELSE IF c.kind = "RestTimeConstraint" /\ c.pkg = Planner
               /\ RestTimeRaises(emps, dts, list, c.min_rest_minutes)
    THEN "KeyError"
    ELSE "none"

\* whether constraint.validate(list) raises instead of returning
ValidateRaises(c, emps, dts, list) ==
    ValidateError(c, emps, dts, list) # "none"

\* the employee ids a list names, in the order validate() first meets them
ListedIds(list) ==
    LET all == Flatten([k \in 1..Len(list) |->
                   [x \in 1..Len(list[k].employees) |->
                       list[k].employees[x].employee_id]])
    IN SelectSeq([i \in 1..Len(all) |->
                     IF \E h \in 1..(i - 1) : all[h] = all[i]
                     THEN -1 ELSE all[i]],
                 LAMBDA id : id # -1)

\* emp_workloads[id] of WorkloadBalanceConstraint.validate: the minutes
\* between start_time and end_time of the records naming the employee
RecordMinutes(list, employeeId) ==
    SumSeq([k \in 1..Len(list) |->
        calculate_working_minutes(list[k].start_time, list[k].end_time)
          * Cardinality({x \in 1..Len(list[k].employees) :
                list[k].employees[x].employee_id = employeeId})])

\* WorkloadBalanceConstraint.validate of resource_planner/src;
\* abs(w - avg) / avg * 100 <= p with avg = total / n, in whole numbers
WorkloadBalanceValidate(list, maxDeviation) ==
    LET ids == ListedIds(list)
        n == Len(ids)
        total == SumSeq([i \in 1..n |-> RecordMinutes(list, ids[i])])
    IN \/ total = 0
       \/ \A i \in 1..n :
             LET d == RecordMinutes(list, ids[i]) * n - total
             IN (IF d < 0 THEN -d ELSE d) * 100 <= maxDeviation * total

\* constraint.validate(list) of a module
Validate(c, emps, dts, list) ==
    CASE c.kind = "RequiredEmployeesConstraint" ->
            RequiredEmployeesValidate(dts, list)
      [] c.kind = "BlockedDaysConstraint" -> BlockedDaysValidate(emps, list)
      [] c.kind = "OneDutyPerDayConstraint" ->
            OneDutyPerDayValidate(emps, list)
      [] c.kind = "RestTimeConstraint" /\ c.pkg = Planner ->
            RestTimeValidate(emps, dts, list, c.min_rest_minutes)
      [] c.kind = "RestTimeConstraint" /\ c.pkg = Standalone ->
            RestTimeValidateDated(emps, list, c.min_rest_minutes)
      [] c.kind = "MaxDaysInARowConstraint" ->
            MaxDaysInARowValidate(emps, dts, list)
      [] c.kind = "MaxWorkingHoursInPeriodConstraints" ->
            MaxWorkingHoursValidate(emps, dts, list)
      [] c.kind = "WorkloadBalanceConstraint" ->
            WorkloadBalanceValidate(list, c.max_deviation_percent)

----------------------------------------------------------------------------
(* ResourcePlanner *)

OkStatus == {"OPTIMAL", "FEASIBLE"}

\* faulty variant: the record lists every employee of the employee list
RecordOfAll(d, emps, val) ==
    [duty_id |-> d.id, duty_code |-> d.code, date |-> d.date,
     start_time |-> d.start_time, end_time |-> d.end_time,
     employees |-> [i \in 1..Len(emps) |->
         [employee_id |-> emps[i].id, employee_name |-> emps[i].name]]]

\* the record solve() builds for one duty from the solver's values
Record(d, emps, val) ==
    LET on == SelectSeq(emps, LAMBDA e : val[<<e.id, d.id>>] = 1)
    IN [duty_id |-> d.id, duty_code |-> d.code, date |-> d.date,
        start_time |-> d.start_time, end_time |-> d.end_time,
        employees |-> [i \in 1..Len(on) |->
            [employee_id |-> on[i].id, employee_name |-> on[i].name]]]

\* faulty variant: the records are ordered by date alone
KeyLEByDate(a, b) == a.date <= b.date

\* key=lambda x: (x['date'], x['duty_code'], x['start_time']), compared
KeyLE(a, b) ==
    \/ a.date < b.date
    \/ a.date = b.date /\ a.duty_code < b.duty_code
    \/ a.date = b.date /\ a.duty_code = b.duty_code
         /\ a.start_time <= b.start_time

\* list.sort(key=...): stable, records with equal keys keep their order
RECURSIVE SortRecords(_)
SortRecords(s) ==
    IF s = <<>> THEN <<>>
    ELSE LET front == SortRecords(SubSeq(s, 1, Len(s) - 1))
             x == s[Len(s)]
             n == Cardinality({i \in 1..Len(front) : KeyLE(front[i], x)})
         IN SubSeq(front, 1, n) \o <<x>> \o SubSeq(front, n + 1, Len(front))

\* the list solve() stores on OPTIMAL/FEASIBLE
Project(emps, dts, val) ==
    LET any == SelectSeq(dts, LAMBDA d :
                   \E j \in 1..Len(emps) : val[<<emps[j].id, d.id>>] = 1)
    IN SortRecords([i \in 1..Len(any) |-> Record(any[i], emps, val)])

\* solutions of the model over the variables of the matrix
Solutions == {val \in [matrix -> {0, 1}] : Satisfies(val, model)}

\* the value of an employee's utilization variable under a valuation:
\* AddDivisionEquality(utilization, workload_minutes, max_possible_minutes),
\* the whole quotient of the assigned minutes by the maximum
UtilizationValue(load, val) ==
    SumSeq([i \in 1..Len(load.terms) |-> load.coefs[i] * val[load.terms[i]]])
       \div load.cap

\* the value of avg_utilization_scaled: the sum of the utilizations times
\* SCALE, divided by the number of employees
AverageValue(o, val) ==
    (SumSeq([j \in 1..Len(o.loads) |-> UtilizationValue(o.loads[j], val)])
        * SCALE) \div Len(o.loads)

\* the value of the model's objective under a valuation: the greatest
\* |utilization * SCALE - average|, utilization the whole quotient of the
\* assigned minutes by the employee's maximum, the average a whole quotient
ObjectiveValue(o, val) ==
    LET n == Len(o.loads)
        u(j) == SumSeq([i \in 1..Len(o.loads[j].terms) |->
                    o.loads[j].coefs[i] * val[o.loads[j].terms[i]]])
                  \div o.loads[j].cap
        avg == (SumSeq([j \in 1..n |-> u(j)]) * SCALE) \div n
        dev(j) == IF u(j) * SCALE >= avg THEN u(j) * SCALE - avg
                  ELSE avg - u(j) * SCALE
    IN CHOOSE m \in {dev(j) : j \in 1..n} : \A j \in 1..n : dev(j) <= m

\* OPTIMAL: no solution has a smaller objective (the last Minimize counts)
IsOptimal(val) ==
    LET os == SelectSeq(model, LAMBDA c : c.op = "minimize")
    IN IF Len(os) = 0 THEN TRUE
       ELSE \A other \in Solutions :
               ObjectiveValue(os[Len(os)], val)
                  <= ObjectiveValue(os[Len(os)], other)

\* _expand_duties from current_date on, duty_id being the next id: one
\* copy of every template per day, with the day's date, the next id and
\* the working minutes of its window
RECURSIVE ExpandFrom(_, _, _, _)
ExpandFrom(current_date, end_date, templates, duty_id) ==
    IF current_date > end_date THEN <<>>
    ELSE [t \in 1..Len(templates) |->
             Duty(duty_id + t - 1, templates[t].code, current_date,
                  templates[t].required_employees, templates[t].start_time,
                  templates[t].end_time)]
           \o ExpandFrom(current_date + 1, end_date, templates,
                         duty_id + Len(templates))

\* faulty variant: the templates are not copied, so every duty of a
\* template is the one dictionary, left with the last date and id written
expand_duties_shared(cfg) ==
    LET copies == ExpandFrom(cfg.start_date, cfg.end_date, cfg.duties, 0)
        k == Len(cfg.duties)
    IN [i \in 1..Len(copies) |-> copies[Len(copies) - k + ((i - 1) % k) + 1]]

\* ConfigLoader._expand_duties
expand_duties(cfg) ==
    ExpandFrom(cfg.start_date, cfg.end_date, cfg.duties, 0)

\* a planner or a module used without a ConfigLoader
NoConfig == [start_date |-> 1, end_date |-> 0, duties |-> <<>>]

\* the keys setup_model() writes: one per employee entry and duty entry
Pairs ==
    {<<employees[j].id, duties[i].id>> :
        j \in 1..Len(employees), i \in 1..Len(duties)}

add_employee(e) ==
    /\ employees' = Append(employees, e)
    /\ error' = "none"
    /\ UNCHANGED <<config, duties, constraints, matrix, model, values, assignments,
                   status, results, applied, reported, slot>>

add_duty(d) ==
    /\ duties' = Append(duties, d)
    /\ error' = "none"
    /\ UNCHANGED <<config, employees, constraints, matrix, model, values,
                   assignments, status, results, applied, reported, slot>>

add_constraint(c) ==
    /\ constraints' = Append(constraints, c)
    /\ error' = "none"
    /\ UNCHANGED <<config, employees, duties, matrix, model, values, assignments,
                   status, results, applied, reported, slot>>

\* faulty variant: every module is applied before the variables are created
setup_model_apply_first ==
    /\ matrix' = matrix \cup Pairs
    /\ model' = model \o
          Flatten([k \in 1..Len(constraints) |->
                      Apply(constraints[k], employees, duties)])
    /\ applied' = applied \o
          [k \in 1..Len(constraints) |->
              [module |-> constraints[k], variables |-> matrix]]
    /\ error' = "none"
    /\ UNCHANGED <<config, employees, duties, constraints, values, assignments,
                   status, results, reported, slot>>

\* setup_model(): the variables of all pairs are stored under their keys,
\* then every module is applied in list order.  Once solve() has replaced
\* self.assignments by a list, storing under a key raises TypeError before
\* anything is changed.
setup_model ==
    IF slot = "list" /\ Pairs # {}
    THEN /\ error' = "TypeError"
         /\ UNCHANGED <<config, employees, duties, constraints, matrix, model,
                        values, assignments, status, results, applied,
                        reported, slot>>
    ELSE /\ matrix' = matrix \cup Pairs
         /\ model' = model \o
               Flatten([k \in 1..Len(constraints) |->
                           Apply(constraints[k], employees, duties)])
         /\ applied' = applied \o
               [k \in 1..Len(constraints) |->
                   [module |-> constraints[k], variables |-> matrix']]
         /\ error' = "none"
         /\ UNCHANGED <<config, employees, duties, constraints, values, assignments,
                        status, results, reported, slot>>

\* what the solver can report besides a solution: MODEL_INVALID for a
\* model it rejects, INFEASIBLE when there is no solution, UNKNOWN when it
\* gives up at the time limit
Failures ==
    IF \E k \in 1..Len(model) : model[k].op = "invalid"
    THEN {"MODEL_INVALID"}
    ELSE IF Solutions = {} THEN {"INFEASIBLE", "UNKNOWN"} ELSE {"UNKNOWN"}

\* the exception the projection of a solution raises: KeyError when a pair
\* has no variable in the dict, TypeError when self.assignments is a list
\* and is indexed by a pair
ProjectionError ==
    IF slot = "dict"
    THEN IF Pairs \subseteq matrix THEN "none" ELSE "KeyError"
    ELSE IF Pairs = {} THEN "none" ELSE "TypeError"

\* faulty variant: an outcome without a solution is passed on as reported
solve_raw_status ==
    /\ \/ \E val \in Solutions, st \in OkStatus :
            /\ st = "OPTIMAL" => IsOptimal(val)
            /\ ProjectionError = "none"
            /\ values' = val
            /\ assignments' = Project(employees, duties, val)
            /\ status' = st
            /\ reported' = st
       \/ \E raw \in Failures :
            /\ values' = <<>>
            /\ assignments' = <<>>
            /\ status' = raw
            /\ reported' = raw
    /\ slot' = "list"
    /\ error' = "none"
    /\ UNCHANGED <<config, employees, duties, constraints, matrix, model, results,
                   applied>>

\* solve(): the solver reports a solution of the model (OPTIMAL or
\* FEASIBLE) and the solution is projected on the list of records, or it
\* reports none and the list stays empty; the list replaces
\* self.assignments and every status but the two becomes INFEASIBLE.  An
\* exception of the projection leaves the planner as it was.
solve ==
    \/ /\ \/ \E val \in Solutions, st \in OkStatus :
               /\ st = "OPTIMAL" => IsOptimal(val)
               /\ ProjectionError = "none"
               /\ values' = val
               /\ assignments' = Project(employees, duties, val)
               /\ status' = st
               /\ reported' = st
          \/ \E raw \in Failures :
               /\ values' = <<>>
               /\ assignments' = <<>>
               /\ status' = "INFEASIBLE"
               /\ reported' = raw
       /\ slot' = "list"
       /\ error' = "none"
       /\ UNCHANGED <<config, employees, duties, constraints, matrix, model,
                      results, applied>>
    \/ /\ Solutions # {}
       /\ ProjectionError # "none"
       /\ error' = ProjectionError
       /\ UNCHANGED <<config, employees, duties, constraints, matrix, model, values,
                      assignments, status, results, applied, reported, slot>>

\* the names of the classes of the registered modules
Kinds == {constraints[k].kind : k \in 1..Len(constraints)}

\* validation_results: one entry per class name, the last instance's
ValidationResults ==
    [n \in Kinds |->
        LET k == CHOOSE k \in 1..Len(constraints) :
                     /\ constraints[k].kind = n
                     /\ \A l \in (k + 1)..Len(constraints) :
                            constraints[l].kind # n
        IN Validate(constraints[k], employees, duties, assignments)]

\* validate() given the dict of variables: its items are the key pairs;
\* get_employee_assignments() drops them, the two modules that read the
\* items themselves raise
ReadsItems(c) ==
    c.kind \in {"RequiredEmployeesConstraint", "WorkloadBalanceConstraint"}

\* what validate_solution() finds in self.assignments
Held == IF slot = "dict" THEN matrix # {} ELSE assignments # <<>>

\* validate_solution(): ValueError on an empty self.assignments; otherwise
\* every module's validate() is given self.assignments
validate_solution ==
    IF ~ Held
    THEN /\ error' = "ValueError"
         /\ UNCHANGED <<config, employees, duties, constraints, matrix, model,
                        values, assignments, status, results, applied,
                        reported, slot>>
    ELSE IF slot = "dict"
              /\ \E k \in 1..Len(constraints) : ReadsItems(constraints[k])
    THEN /\ error' = "TypeError"
         /\ UNCHANGED <<config, employees, duties, constraints, matrix, model,
                        values, assignments, status, results, applied,
                        reported, slot>>
    ELSE /\ results' = IF slot = "dict" THEN [n \in Kinds |-> TRUE]
                       ELSE ValidationResults
         /\ error' = "none"
         /\ UNCHANGED <<config, employees, duties, constraints, matrix, model,
                        values, assignments, status, applied, reported,
                        slot>>

Init ==
    /\ employees = <<>>
    /\ duties = <<>>
    /\ constraints = <<>>
    /\ matrix = {}
    /\ model = <<>>
    /\ values = <<>>
    /\ assignments = <<>>
    /\ status = "NONE"
    /\ results = <<>>
    /\ applied = <<>>
    /\ reported = "NONE"
    /\ slot = "dict"
    /\ error = "none"
    /\ config = NoConfig
    /\ pc = "populate"

----------------------------------------------------------------------------
(* A planning run: the caller loads employees and duties, numbering them   *)
(* 0, 1, 2, ... as the expanded configuration and the tests do, registers  *)
(* the constraint modules, sets the model up and solves it.  E and D are   *)
(* the employees and duties the caller may load, C the modules.            *)

LoadEmployee(E) ==
    /\ pc = "populate"
    /\ Len(employees) < MaxEmployees
    /\ \E e \in E : e.id = Len(employees) /\ add_employee(e)
    /\ pc' = pc

LoadDuty(D) ==
    /\ pc = "populate"
    /\ Len(duties) < MaxDuties
    /\ \E d \in D : d.id = Len(duties) /\ add_duty(d)
    /\ pc' = pc

Register(C) ==
    /\ pc = "populate"
    /\ Len(constraints) < MaxConstraints
    /\ \E c \in C : add_constraint(c)
    /\ pc' = pc

Setup ==
    /\ pc = "populate"
    /\ setup_model
    /\ pc' = "modeled"

Solve ==
    /\ pc = "modeled"
    /\ solve
    /\ pc' = "solved"

\* the caller validates the plan solve() left, if it left one
ValidateSolution ==
    /\ pc = "solved"
    /\ assignments # <<>>
    /\ validate_solution
    /\ pc' = "validated"

Run(E, D, C) ==
    \/ LoadEmployee(E)
    \/ LoadDuty(D)
    \/ Register(C)
    \/ Setup
    \/ Solve

Registered(kind) == \E k \in 1..Len(constraints) : constraints[k].kind = kind

----------------------------------------------------------------------------
(* Inputs *)

Dates == 1..MaxDate

\* time windows of the duty templates: 04:00-13:00, 14:00-23:00,
\* 22:00-07:00 (overnight), 09:00-17:00
Early == [start |-> 240, end |-> 780]
Late == [start |-> 840, end |-> 1380]
Night == [start |-> 1320, end |-> 420]
Office == [start |-> 540, end |-> 1020]

PlainEmployees == {Employee(id, 1, {}) : id \in 0..MaxEmployees}

----------------------------------------------------------------------------
(* Coverage *)

\* duties on one day or on two, which is all the two modules tell apart
CoverageDuties ==
    {Duty(id, 1, date, req, Early.start, Early.end) :
        id \in 0..MaxDuties, date \in {1, 2}, req \in 1..MaxRequired}

CoverageModules ==
    {Module("RequiredEmployeesConstraint", Planner, DefaultMinRestHours),
     Module("OneDutyPerDayConstraint", Planner, DefaultMinRestHours)}

NextCoverage == Run(PlainEmployees, CoverageDuties, CoverageModules)

SpecCoverage == Init /\ [][NextCoverage]_vars

RecordsOf(list, dutyId) == SelectSeq(list, LAMBDA r : r.duty_id = dutyId)

\* C1: on a planner with RequiredEmployeesConstraint registered before
\* setup_model(), when solve() returns OPTIMAL or FEASIBLE every duty of the
\* duty list has a record in the assignment list, and the record lists
\* exactly required_employees employees.
C1_CoverageExact ==
    (pc = "solved" /\ status \in OkStatus
        /\ Registered("RequiredEmployeesConstraint"))
    => \A i \in 1..Len(duties) :
          LET rs == RecordsOf(assignments, duties[i].id)
          IN /\ Len(rs) = 1
             /\ Len(rs[1].employees) = duties[i].required_employees

C1_Witness ==
    /\ pc = "solved" /\ status = "OPTIMAL"
    /\ Registered("RequiredEmployeesConstraint")
    /\ Len(duties) = 2 /\ Len(employees) = 2
    /\ duties[1].required_employees = 1
    /\ duties[2].required_employees = 2

----------------------------------------------------------------------------
(* A module called on its own, as the constraint tests do: the module is   *)
(* built over an employee list and a duty list and validate() is given a   *)
(* hand-written assignment list.                                           *)

InitProbe(EL, DL, CL, AL) ==
    /\ employees \in EL
    /\ duties \in DL
    /\ constraints \in CL
    /\ assignments \in AL
    /\ matrix = {}
    /\ model = <<>>
    /\ values = <<>>
    /\ status = "NONE"
    /\ results = <<>>
    /\ applied = <<>>
    /\ reported = "NONE"
    /\ slot = "list"
    /\ error = "none"
    /\ config = NoConfig
    /\ pc = "probe"

\* faulty variant: the list is sorted in place before it is read
CallValidateSortingInPlace ==
    /\ pc = "probe"
    /\ results' = ValidationResults
    /\ assignments' = SortRecords(assignments)
    /\ error' = "none"
    /\ pc' = "validated"
    /\ UNCHANGED <<config, employees, duties, constraints, matrix, model, values,
                   status, applied, reported, slot>>

CallValidate ==
    /\ pc = "probe"
    /\ LET raising == {k \in 1..Len(constraints) :
               ValidateRaises(constraints[k], employees, duties, assignments)}
       IN IF raising # {}
          THEN /\ error' = ValidateError(
                     constraints[CHOOSE k \in raising :
                                    \A l \in raising : k <= l],
                     employees, duties, assignments)
               /\ results' = results
          ELSE error' = "none" /\ results' = ValidationResults
    /\ pc' = "validated"
    /\ UNCHANGED <<config, employees, duties, constraints, matrix, model, values,
                   assignments, status, applied, reported, slot>>

\* the employee entry of a record
Listed(e) == [employee_id |-> e.id, employee_name |-> e.name]

\* a record for duty d listing the employees es
RecordFor(d, es) ==
    [duty_id |-> d.id, duty_code |-> d.code, date |-> d.date,
     start_time |-> d.start_time, end_time |-> d.end_time,
     employees |-> [i \in 1..Len(es) |-> Listed(es[i])]]

\* lists with at most one record per duty id, at most n records
ListsOf(R, n) ==
    {l \in SeqsUpTo(R, n) :
        \A a, b \in 1..Len(l) : a # b => l[a].duty_id # l[b].duty_id}

\* the duty lists a caller can load: ids 0, 1, ... in list order
DutyLists(D, n) ==
    {l \in SeqsUpTo(D, n) : \A i \in 1..Len(l) : l[i].id = i - 1}

EmployeeLists(E, n) ==
    {l \in SeqsUpTo(E, n) : \A i \in 1..Len(l) : l[i].id = i - 1}

\* the employees of a record: none, the first, the first two, ...
Crews(n) == {[i \in 1..k |-> Employee(i - 1, 1, {})] : k \in 0..n}

----------------------------------------------------------------------------
(* RequiredEmployeesConstraint.validate *)

RequiredProbeRecords ==
    {RecordFor(d, es) : d \in CoverageDuties, es \in Crews(MaxRequired)}

InitRequiredProbe ==
    InitProbe(EmployeeLists(PlainEmployees, MaxEmployees),
              DutyLists({d \in CoverageDuties : d.date = 1}, MaxDuties),
              {<<Module("RequiredEmployeesConstraint", Standalone,
                        DefaultMinRestHours)>>},
              ListsOf({r \in RequiredProbeRecords : r.date = 1}, MaxRecords))

SpecRequiredProbe == InitRequiredProbe /\ [][CallValidate]_vars

\* the number of employees a list assigns to a duty, 0 without a record
AssignedTo(list, dutyId) ==
    LET rs == RecordsOf(list, dutyId)
    IN IF rs = <<>> THEN 0 ELSE Len(rs[1].employees)

\* C2: RequiredEmployeesConstraint.validate returns true if and only if
\* every duty of the duty list has exactly required_employees employees in
\* the assignment list, a duty without a record counting as zero; so it
\* never returns true for a list from which a duty is absent.
C2_ValidateIffEveryDutyExact ==
    pc = "validated" =>
        (results["RequiredEmployeesConstraint"]
            <=> \A i \in 1..Len(duties) :
                   AssignedTo(assignments, duties[i].id)
                       = duties[i].required_employees)

----------------------------------------------------------------------------
(* Rest time *)

RestHours == {DefaultMinRestHours, 12}

RestDuties ==
    {Duty(id, 1, date, 1, w.start, w.end) :
        id \in 0..MaxDuties, date \in Dates, w \in {Early, Late, Night}}

RestModules == {Module("RestTimeConstraint", Planner, h) : h \in RestHours}

NextRest == Run(PlainEmployees, RestDuties, RestModules)

SpecRest == Init /\ [][NextRest]_vars

\* real start and end of a record: date and time, the end of an overnight
\* duty on the following day
RealStart(r) == r.date * MinutesPerDay + r.start_time
RealEnd(r) ==
    r.date * MinutesPerDay + r.end_time
        + (IF r.end_time < r.start_time THEN MinutesPerDay ELSE 0)

\* the records of the list that list the employee
RecordsWith(list, employeeId) ==
    SelectSeq(list, LAMBDA r :
        \E k \in 1..Len(r.employees) : r.employees[k].employee_id = employeeId)

\* a and b are consecutive among the employee's records in start order
ConsecutiveByStart(rs, a, b) ==
    /\ a # b
    /\ RealStart(rs[a]) <= RealStart(rs[b])
    /\ ~ \E c \in 1..Len(rs) :
           /\ c # a /\ c # b
           /\ RealStart(rs[a]) < RealStart(rs[c])
           /\ RealStart(rs[c]) < RealStart(rs[b])

\* some employee has two records, consecutive in start order, with a
\* positive gap below minRest between the first's end and the second's start
ShortRest(emps, list, minRest) ==
    \E j \in 1..Len(emps) :
        LET rs == RecordsWith(list, emps[j].id)
        IN \E a, b \in 1..Len(rs) :
              /\ ConsecutiveByStart(rs, a, b)
              /\ 0 < RealStart(rs[b]) - RealEnd(rs[a])
              /\ RealStart(rs[b]) - RealEnd(rs[a]) < minRest

\* every gap between consecutive records of an employee is at least minRest
AmpleRest(emps, list, minRest) ==
    \A j \in 1..Len(emps) :
        LET rs == RecordsWith(list, emps[j].id)
        IN \A a, b \in 1..Len(rs) :
              ConsecutiveByStart(rs, a, b)
              => RealStart(rs[b]) - RealEnd(rs[a]) >= minRest

\* C3: on a planner with RestTimeConstraint(min_rest_hours=h) registered
\* before setup_model(), in every OPTIMAL or FEASIBLE solution the gap
\* between two consecutive duties of an employee (real end to real start,
\* dates included) is at least h*60 minutes unless it is non-positive.
C3_RestInSolutions ==
    (pc = "solved" /\ status \in OkStatus)
    => \A k \in 1..Len(constraints) :
          constraints[k].kind = "RestTimeConstraint"
          => ~ ShortRest(employees, assignments,
                         constraints[k].min_rest_minutes)

----------------------------------------------------------------------------
(* RestTimeConstraint of resource_planner.src: apply() against validate() *)

OverlapDuties ==
    {Duty(id, 1, date, 1, w.start, w.end) :
        id \in 0..MaxDuties, date \in Dates, w \in {Early, Office}}

DatedModules ==
    {Module("RestTimeConstraint", Standalone, h) : h \in RestHours}

NextRestDated ==
    \/ Run(PlainEmployees, OverlapDuties, DatedModules)
    \/ ValidateSolution

SpecRestDated == Init /\ [][NextRestDated]_vars

\* C5: every assignment that satisfies the constraints RestTimeConstraint
\* .apply() adds makes validate() of the same module return true, also when
\* it gives an employee two overlapping or back-to-back duties.
C5_ApplyImpliesValidate ==
    (pc = "validated" /\ status \in OkStatus
        /\ Registered("RestTimeConstraint"))
    => results["RestTimeConstraint"]

----------------------------------------------------------------------------
(* RestTimeConstraint.validate *)

RestProbeDuties ==
    {Duty(id, 1, date, 1, w.start, w.end) :
        id \in 0..MaxDuties, date \in Dates, w \in {Night, Office}}

\* the duty list of the constraint tests: one early duty per day
BasicDuties ==
    [i \in 1..MaxDuties |-> Duty(i - 1, 1, i, 1, Early.start, Early.end)]

InitRestProbe ==
    InitProbe(EmployeeLists(PlainEmployees, 1),
              {BasicDuties},
              {<<m>> : m \in DatedModules},
              ListsOf({RecordFor(d, es) :
                          d \in RestProbeDuties, es \in Crews(1) \ {<<>>}},
                      MaxRecords))

SpecRestProbe == InitRestProbe /\ [][CallValidate]_vars

\* the example of the claim: 22:00-07:00 dated day 1, then 09:00 on day 2,
\* min_rest_hours = 12
OvernightExample ==
    /\ Len(assignments) = 2
    /\ \E a, b \in 1..2 :
          /\ assignments[a].date = 1 /\ assignments[a].start_time = Night.start
          /\ assignments[a].end_time = Night.end
          /\ assignments[b].date = 2 /\ assignments[b].start_time = Office.start
    /\ constraints[1].min_rest_minutes = 12 * 60

\* C4: RestTimeConstraint.validate returns false whenever an employee has
\* two assignments, consecutive in start order, with a positive gap below
\* min_rest_hours, the end of an overnight duty being on the following day
\* (so false on the overnight example), and true when there is no such gap.
C4_ValidateFalseOnShortRest ==
    pc = "validated" =>
        LET minRest == constraints[1].min_rest_minutes
        IN /\ ShortRest(employees, assignments, minRest)
                => ~ results["RestTimeConstraint"]
           /\ OvernightExample => ~ results["RestTimeConstraint"]
           /\ AmpleRest(employees, assignments, minRest)
                => results["RestTimeConstraint"]

----------------------------------------------------------------------------
(* OneDutyPerDayConstraint.validate *)

DayDuties ==
    {Duty(id, 1, date, 1, w.start, w.end) :
        id \in 0..MaxDuties, date \in Dates, w \in {Early, Late}}

InitOneDutyProbe ==
    InitProbe(EmployeeLists(PlainEmployees, MaxEmployees),
              {BasicDuties},
              {<<Module("OneDutyPerDayConstraint", Planner,
                        DefaultMinRestHours)>>},
              ListsOf({RecordFor(d, es) :
                          d \in DayDuties, es \in Crews(MaxEmployees) \ {<<>>}},
                      MaxRecords))

SpecOneDutyProbe == InitOneDutyProbe /\ [][CallValidate]_vars

\* some employee is listed in two records of the same date
TwoOnOneDay(list) ==
    \E a, b \in 1..Len(list) :
        /\ a # b
        /\ list[a].date = list[b].date
        /\ \E x \in 1..Len(list[a].employees), y \in 1..Len(list[b].employees) :
              list[a].employees[x].employee_id
                  = list[b].employees[y].employee_id

\* C6: OneDutyPerDayConstraint.validate returns false for every list in
\* which an employee is listed in two or more records of the same date, and
\* true when every employee has at most one record per date.
C6_ValidateOnePerDay ==
    pc = "validated" =>
        (results["OneDutyPerDayConstraint"] <=> ~ TwoOnOneDay(assignments))

----------------------------------------------------------------------------
(* ResourcePlanningService *)

BlockedEmployees ==
    {Employee(id, 1, b) : id \in 0..MaxEmployees, b \in {{}, {1}, {1, 2}}}

\* _setup_planner, after the employees and duties are loaded: the two
\* modules it registers (the other four are commented out) and setup_model()
SetupPlanner ==
    /\ pc = "populate"
    /\ constraints = <<>>
    /\ constraints' =
          <<Module("RequiredEmployeesConstraint", Planner, DefaultMinRestHours),
            Module("BlockedDaysConstraint", Planner, DefaultMinRestHours)>>
    /\ matrix' = {<<employees[j].id, duties[i].id>> :
                     j \in 1..Len(employees), i \in 1..Len(duties)}
    /\ model' = RequiredEmployeesApply(employees, duties)
                   \o BlockedDaysApply(employees, duties)
    /\ pc' = "modeled"
    /\ UNCHANGED <<config, employees, duties, values, assignments, status, results,
                   applied, reported, slot, error>>

NextService ==
    \/ LoadEmployee(BlockedEmployees)
    \/ LoadDuty(DayDuties)
    \/ SetupPlanner
    \/ Solve

SpecService == Init /\ [][NextService]_vars

\* C7: in every schedule ResourcePlanningService.solve() returns with
\* status OPTIMAL or FEASIBLE, every employee is assigned to at most one
\* duty on every date.
C7_SingleDutyPerDay ==
    (pc = "solved" /\ status \in OkStatus) => ~ TwoOnOneDay(assignments)

----------------------------------------------------------------------------
(* Blocked days *)

\* duties on a day every blocked employee is off, and on a day only some are
BlockedDuties ==
    {Duty(id, 1, date, 1, Early.start, Early.end) :
        id \in 0..MaxDuties, date \in {1, 2}}

BlockedModules ==
    {Module("BlockedDaysConstraint", Planner, DefaultMinRestHours),
     Module("RequiredEmployeesConstraint", Planner, DefaultMinRestHours)}

InitBlocked ==
    \/ Init
    \/ InitProbe(EmployeeLists(BlockedEmployees, MaxEmployees),
                 {BasicDuties},
                 {<<Module("BlockedDaysConstraint", Planner,
                           DefaultMinRestHours)>>},
                 ListsOf({RecordFor(d, es) :
                             d \in BlockedDuties,
                             es \in Crews(MaxEmployees) \ {<<>>}},
                         MaxRecords))

NextBlocked ==
    \/ Run(BlockedEmployees, BlockedDuties, BlockedModules)
    \/ ValidateSolution
    \/ CallValidate

SpecBlocked == InitBlocked /\ [][NextBlocked]_vars

\* an employee of the employee list is listed in a record dated on one of
\* the employee's blocked days
OnBlockedDay(emps, list) ==
    \E j \in 1..Len(emps), k \in 1..Len(list) :
        /\ list[k].date \in emps[j].blocked_days
        /\ \E x \in 1..Len(list[k].employees) :
              list[k].employees[x].employee_id = emps[j].id

\* the variables the model fixes to false
FixedFalse ==
    {model[i].terms[1] : i \in {i \in 1..Len(model) :
        Len(model[i].terms) = 1 /\ model[i].op = "eq" /\ model[i].rhs = 0}}

\* C8: BlockedDaysConstraint.validate returns false if and only if an
\* employee of the employee list is listed in a record dated on one of the
\* employee's blocked days; apply() fixes to false exactly the (employee,
\* duty) pairs with the duty dated on a blocked day; so no OPTIMAL/FEASIBLE
\* solution of a planner with the module registered places an employee on a
\* blocked day, and every such solution validates true.
C8_BlockedDays ==
    /\ (pc = "validated" /\ Registered("BlockedDaysConstraint"))
         => (results["BlockedDaysConstraint"]
                <=> ~ OnBlockedDay(employees, assignments))
    /\ (pc \in {"modeled", "solved"}
            /\ Registered("BlockedDaysConstraint"))
         => FixedFalse =
               {<<employees[j].id, duties[i].id>> :
                   <<j, i>> \in {p \in (1..Len(employees)) \X (1..Len(duties)) :
                       duties[p[2]].date \in employees[p[1]].blocked_days}}
    /\ (status \in OkStatus /\ Registered("BlockedDaysConstraint"))
         => /\ ~ OnBlockedDay(employees, assignments)
            /\ pc = "validated" => results["BlockedDaysConstraint"]

C8_Witness ==
    /\ pc = "validated" /\ status = "OPTIMAL"
    /\ Registered("BlockedDaysConstraint")
    /\ results["BlockedDaysConstraint"]
    /\ Len(assignments) = 2
    /\ \E j \in 1..Len(employees), i \in 1..Len(duties) :
          duties[i].date \in employees[j].blocked_days

----------------------------------------------------------------------------
(* Maximum days in a row *)

\* the first employee's limit varies; the module treats each employee alone
RowEmployees ==
    {Employee(0, m, {}) : m \in 1..MaxDaysInARow}
        \cup {Employee(id, 1, {}) : id \in 1..MaxEmployees}

RowDuties ==
    {Duty(id, 1, date, 1, Early.start, Early.end) :
        id \in 0..MaxDuties, date \in Dates}

RowModules ==
    {Module("MaxDaysInARowConstraint", Planner, DefaultMinRestHours)}

NextMaxDays == Run(RowEmployees, RowDuties, RowModules)

SpecMaxDays == Init /\ [][NextMaxDays]_vars

\* the dates on which a list gives the employee at least one duty
WorkedDates(list, employeeId) ==
    LET rs == RecordsWith(list, employeeId)
    IN {rs[k].date : k \in 1..Len(rs)}

\* C9: on a planner with MaxDaysInARowConstraint registered before
\* setup_model(), in every OPTIMAL or FEASIBLE solution every employee works
\* on at most max_days_in_a_row dates of every window of max_days_in_a_row
\* + 1 consecutive calendar dates, also when the duty dates have gaps or are
\* fewer than the window.
C9_ConsecutiveDayBound ==
    (pc = "solved" /\ status \in OkStatus
        /\ Registered("MaxDaysInARowConstraint"))
    => \A j \in 1..Len(employees) : \A first \in 0..(MaxDate + 1) :
          LET maxDays == employees[j].max_days_in_a_row
          IN Cardinality(WorkedDates(assignments, employees[j].id)
                            \cap (first..(first + maxDays))) <= maxDays

C9_Witness ==
    /\ pc = "solved" /\ status = "OPTIMAL"
    /\ Registered("MaxDaysInARowConstraint")
    /\ Len(duties) = 2 /\ duties[1].date = 1 /\ duties[2].date = 2
    /\ \E j \in 1..Len(employees) :
          /\ employees[j].max_days_in_a_row = 1
          /\ WorkedDates(assignments, employees[j].id) = {2}

----------------------------------------------------------------------------
(* MaxDaysInARowConstraint.validate *)

\* one early duty on each day of the horizon
HorizonDuties ==
    [i \in 1..Horizon |-> Duty(i - 1, 1, i, 1, Early.start, Early.end)]

\* lists with one record for each day of a set of days, in date order, each
\* listing employee 0 or employee 1
RosterLists ==
    UNION {
        {[k \in 1..Len(SortedSeqOf(days)) |->
             RecordFor(HorizonDuties[SortedSeqOf(days)[k]],
                       <<Employee(who[SortedSeqOf(days)[k]], 1, {})>>)] :
            who \in [days -> {0, 1}]} :
        days \in SUBSET (1..Horizon)}

InitMaxDaysProbe ==
    InitProbe({<<Employee(0, m, {}), Employee(1, 1, {})>> :
                  m \in 1..(MaxDaysInARow + 1)},
              {HorizonDuties},
              {<<Module("MaxDaysInARowConstraint", Planner,
                        DefaultMinRestHours)>>},
              RosterLists)

SpecMaxDaysProbe == InitMaxDaysProbe /\ [][CallValidate]_vars

\* some run of maxDays + 1 consecutive entries of the sorted distinct duty
\* dates holds more than maxDays dates on which the employee has a record
LongRun(emps, dts, list) ==
    LET dates == DatesSorted(dts)
    IN \E j \in 1..Len(emps) :
         LET maxDays == emps[j].max_days_in_a_row
         IN \E i \in 1..(Len(dates) - maxDays) :
              Cardinality({k \in i..(i + maxDays) :
                  dates[k] \in WorkedDates(list, emps[j].id)}) > maxDays

\* C10: MaxDaysInARowConstraint.validate returns false if and only if, for
\* some employee, some run of max_days_in_a_row + 1 consecutive entries of
\* the sorted distinct duty dates holds more than max_days_in_a_row dates
\* with a record of the employee; with max_days_in_a_row = 3, five dates in
\* a row validate false and 3 on, 1 off, 3 on validates true.
C10_ValidateMaxDays ==
    pc = "validated" =>
        LET r == results["MaxDaysInARowConstraint"]
            max3 == employees[1].max_days_in_a_row = 3
            worked == WorkedDates(assignments, 0)
        IN /\ r <=> ~ LongRun(employees, duties, assignments)
           /\ (max3 /\ worked = 1..5) => ~ r
           /\ (max3 /\ worked = {1, 2, 3, 5, 6, 7}) => r

C10_Witness ==
    /\ pc = "validated"
    /\ employees[1].max_days_in_a_row = 3
    /\ WorkedDates(assignments, 0) = {1, 2, 3, 5, 6, 7}
    /\ results["MaxDaysInARowConstraint"]

----------------------------------------------------------------------------
(* Working hours in the period *)

\* limits of 8, 9 and 17 hours against duties of 9 and 8 hours
PeriodHours == {8, 9, 17}

\* the first employee's limit varies; the module treats each employee alone
HoursEmployees ==
    {[Employee(0, 1, {}) EXCEPT !.max_hours_in_period = h] : h \in PeriodHours}
        \cup {Employee(id, 1, {}) : id \in 1..MaxEmployees}

HoursDuties ==
    {Duty(id, 1, 1, 1, w.start, w.end) :
        id \in 0..MaxDuties, w \in {Early, Office}}

HoursModules ==
    {Module("MaxWorkingHoursInPeriodConstraints", Planner,
            DefaultMinRestHours)}

\* a duty list of early and office duties in turn, one a day
HoursRoster ==
    [i \in 1..(MaxDuties + 1) |->
        IF i % 2 = 1 THEN Duty(i - 1, 1, i, 1, Early.start, Early.end)
        ELSE Duty(i - 1, 1, i, 1, Office.start, Office.end)]

InitPeriodHours ==
    \/ Init
    \/ InitProbe(EmployeeLists(HoursEmployees, MaxEmployees),
                 {HoursRoster},
                 {<<c>> : c \in HoursModules},
                 ListsOf({RecordFor(HoursRoster[i], es) :
                             i \in 1..Len(HoursRoster),
                             es \in Crews(MaxEmployees) \ {<<>>}},
                         MaxRecords))

NextPeriodHours ==
    \/ Run(HoursEmployees, HoursDuties, HoursModules)
    \/ ValidateSolution
    \/ CallValidate

SpecPeriodHours == InitPeriodHours /\ [][NextPeriodHours]_vars

\* the working minutes of the duties whose records list the employee
MinutesOf(list, dts, employeeId) ==
    LET rs == RecordsWith(list, employeeId)
    IN SumSeq([k \in 1..Len(rs) |->
          SumSeq([i \in 1..Len(dts) |->
              IF dts[i].id = rs[k].duty_id THEN dts[i].working_minutes
              ELSE 0])])

WithinPeriodHours ==
    \A j \in 1..Len(employees) :
        MinutesOf(assignments, duties, employees[j].id)
            <= employees[j].max_hours_in_period * 60

\* C11: MaxWorkingHoursInPeriodConstraints.validate returns true if and only
\* if every employee's assigned working minutes (by duty id in the duty list)
\* are at most max_hours_in_period * 60; every OPTIMAL/FEASIBLE solution of a
\* planner with the module registered keeps the bound and validates true.
C11_PeriodHours ==
    /\ (pc = "validated" /\ Registered("MaxWorkingHoursInPeriodConstraints"))
         => (results["MaxWorkingHoursInPeriodConstraints"]
                <=> WithinPeriodHours)
    /\ (status \in OkStatus
            /\ Registered("MaxWorkingHoursInPeriodConstraints"))
         => WithinPeriodHours

C11_Witness ==
    /\ pc = "validated" /\ status = "OPTIMAL"
    /\ Registered("MaxWorkingHoursInPeriodConstraints")
    /\ results["MaxWorkingHoursInPeriodConstraints"]
    /\ Len(employees) = 2 /\ Len(duties) = 2
    /\ employees[1].max_hours_in_period = 9
    /\ MinutesOf(assignments, duties, 0) = 540
    /\ duties[1].working_minutes # duties[2].working_minutes

----------------------------------------------------------------------------
(* Workload balance *)

\* 10:00-12:00, the short duty of the module's tests
Short == [start |-> 600, end |-> 720]

BalanceDuties ==
    {Duty(id, 1, 1, 1, w.start, w.end) :
        id \in 0..MaxDuties, w \in {Early, Short}}

BalanceModules == {BalanceModule(Standalone, DefaultMaxDeviationPercent)}

NextBalance ==
    \/ Run(HoursEmployees, BalanceDuties, BalanceModules)
    \/ ValidateSolution

SpecBalance == Init /\ [][NextBalance]_vars

\* C12: every OPTIMAL or FEASIBLE solution of a model built with
\* WorkloadBalanceConstraint.apply() makes validate() of the same module
\* return true.
C12_BalanceApplyImpliesValidate ==
    (pc = "validated" /\ status \in OkStatus
        /\ Registered("WorkloadBalanceConstraint"))
    => results["WorkloadBalanceConstraint"]

----------------------------------------------------------------------------
(* WorkloadBalanceConstraint.validate *)

\* basic_employees of the tests
FourEmployees == [i \in 1..4 |-> Employee(i - 1, 3, {})]

\* a list giving employee i - 1 the i-th of four time windows, as the
\* lists of the module's tests do
OneEach(windows) ==
    [i \in 1..4 |->
        RecordFor(Duty(i - 1, 1, 1, 2, windows[i].start, windows[i].end),
                  <<FourEmployees[i]>>)]

\* 8, 8.5, 7.5 and 8 hours
BalancedExample ==
    OneEach(<<[start |-> 480, end |-> 960], [start |-> 480, end |-> 990],
              [start |-> 540, end |-> 990], Office>>)

\* 00:00-23:59, 2, 6 and 4 hours
UnbalancedExample ==
    OneEach(<<[start |-> 0, end |-> 1439], Short,
              [start |-> 540, end |-> 900], [start |-> 600, end |-> 840]>>)

BalanceProbeRecords ==
    {RecordFor(Duty(id, 1, 1, 2, w.start, w.end), es) :
        id \in 0..MaxDuties, w \in {Early, Office, Short},
        es \in Crews(MaxEmployees) \ {<<>>}}

InitBalanceProbe ==
    InitProbe(EmployeeLists(PlainEmployees, MaxEmployees) \cup {FourEmployees},
              {BasicDuties},
              {<<BalanceModule(Standalone, DefaultMaxDeviationPercent)>>},
              ListsOf(BalanceProbeRecords, MaxRecords)
                  \cup {BalancedExample, UnbalancedExample})

SpecBalanceProbe == InitBalanceProbe /\ [][CallValidate]_vars

\* every employee a record names is an employee of the employee list
AllListedKnown ==
    \A k \in 1..Len(assignments) : \A x \in 1..Len(assignments[k].employees) :
        \E j \in 1..Len(employees) :
            employees[j].id = assignments[k].employees[x].employee_id

\* no employee of the employee list deviates from the average over the
\* employee list by more than maxDeviation percent of it
Balanced(emps, list, maxDeviation) ==
    LET n == Len(emps)
        w(j) == SumSeq([k \in 1..Len(RecordsWith(list, emps[j].id)) |->
                   LET r == RecordsWith(list, emps[j].id)[k]
                   IN RealEnd([r EXCEPT !.date = 0])
                        - RealStart([r EXCEPT !.date = 0])])
        total == SumSeq([j \in 1..n |-> w(j)])
    IN \/ total = 0
       \/ \A j \in 1..n :
             /\ (w(j) * n - total) * 100 <= maxDeviation * total
             /\ (total - w(j) * n) * 100 <= maxDeviation * total

\* C13: WorkloadBalanceConstraint.validate returns true exactly when no
\* employee's assigned minutes deviate from the average over all employees
\* by more than max_deviation_percent percent of it, an employee without an
\* assignment counting as 0; with 20 percent, 8, 8.5, 7.5 and 8 hours
\* validate true and 24, 2, 6 and 4 hours validate false.
C13_ValidateBalance ==
    pc = "validated" =>
        LET r == results["WorkloadBalanceConstraint"]
        IN /\ AllListedKnown
                => (r <=> Balanced(employees, assignments,
                                   constraints[1].max_deviation_percent))
           /\ (employees = FourEmployees /\ assignments = BalancedExample)
                => r
           /\ (employees = FourEmployees /\ assignments = UnbalancedExample)
                => ~ r

----------------------------------------------------------------------------
(* setup_model(): variables and the order of apply() *)

SetupEmployees == {Employee(id, 1, b) : id \in 0..MaxEmployees, b \in {{}, {1}}}

SetupDuties ==
    {Duty(id, 1, date, 1, Early.start, Early.end) :
        id \in 0..MaxDuties, date \in {1, 2}}

SetupModules ==
    {Module("RequiredEmployeesConstraint", Planner, DefaultMinRestHours),
     Module("BlockedDaysConstraint", Planner, DefaultMinRestHours)}

\* add_constraint() called up to MaxConstraints + 1 times, so that two
\* modules are registered in either order, or one class twice
RegisterSeveral(C) ==
    /\ pc = "populate"
    /\ Len(constraints) <= MaxConstraints
    /\ \E c \in C : add_constraint(c)
    /\ pc' = pc

NextSetup ==
    \/ LoadEmployee(SetupEmployees)
    \/ LoadDuty(SetupDuties)
    \/ RegisterSeveral(SetupModules)
    \/ Setup

SpecSetup == Init /\ [][NextSetup]_vars

\* C14: after setup_model() the dict holds exactly one variable for every
\* (employee, duty) pair, |employees| x |duties| in all, keyed by the two
\* ids; every registered module has been applied exactly once, in
\* registration order, and each apply() saw the variables of all pairs.
C14_SetupModel ==
    pc = "modeled" =>
        /\ matrix = Pairs
        /\ Cardinality(matrix) = Len(employees) * Len(duties)
        /\ Len(applied) = Len(constraints)
        /\ \A k \in 1..Len(applied) :
              /\ applied[k].module = constraints[k]
              /\ applied[k].variables = Pairs
        /\ model = Flatten([k \in 1..Len(constraints) |->
                               Apply(constraints[k], employees, duties)])

C14_Witness ==
    /\ pc = "modeled"
    /\ Len(employees) = 2
    /\ Len(duties) = 2
    /\ Len(constraints) = 2
    /\ constraints[1].kind = "BlockedDaysConstraint"
    /\ constraints[2].kind = "RequiredEmployeesConstraint"
    /\ Len(applied) = 2
    /\ applied[1].module.kind = "BlockedDaysConstraint"
    /\ Cardinality(applied[1].variables) = 4

----------------------------------------------------------------------------
(* solve(): the status returned *)

\* duties that need two employees: no solution with fewer than two
StatusDuties ==
    {Duty(id, 1, 1, MaxRequired, Early.start, Early.end) : id \in 0..MaxDuties}

\* a module that makes the model infeasible when employees are missing, and
\* one that adds an objective and, with no employee, a division by zero
StatusModules ==
    {Module("RequiredEmployeesConstraint", Planner, DefaultMinRestHours),
     BalanceModule(Standalone, DefaultMaxDeviationPercent)}

NextStatus == Run(PlainEmployees, StatusDuties, StatusModules)

SpecStatus == Init /\ [][NextStatus]_vars

\* C15: solve() returns OPTIMAL exactly when the solver reports optimal,
\* FEASIBLE exactly when it reports feasible and INFEASIBLE for every other
\* outcome (infeasible, unknown, invalid model); with INFEASIBLE the
\* assignment list is empty, and no exception is raised.
C15_SolveStatus ==
    pc = "solved" =>
        /\ status = "OPTIMAL" <=> reported = "OPTIMAL"
        /\ status = "FEASIBLE" <=> reported = "FEASIBLE"
        /\ reported \notin OkStatus => status = "INFEASIBLE"
        /\ status = "INFEASIBLE" => assignments = <<>> /\ slot = "list"
        /\ error = "none"

C15_Witness ==
    /\ pc = "solved"
    /\ Len(employees) = 1
    /\ Len(duties) = 1
    /\ Registered("RequiredEmployeesConstraint")
    /\ reported = "INFEASIBLE"
    /\ status = "INFEASIBLE"
    /\ assignments = <<>>

----------------------------------------------------------------------------
(* The planner called in any order: no method checks what was called       *)
(* before it, so the caller here picks any method at any time and any id.  *)
(* pc holds the name of the last call and whether setup_model() was ever   *)
(* called.                                                                 *)

AnyEmployees == {Employee(id, 1, {}) : id \in 0..(MaxEmployees - 1)}

AnyDuties ==
    {Duty(id, 1, 1, 1, Early.start, Early.end) : id \in 0..(MaxDuties - 1)}

AnyModules ==
    {Module("RequiredEmployeesConstraint", Planner, DefaultMinRestHours),
     Module("BlockedDaysConstraint", Planner, DefaultMinRestHours)}

InitCalls ==
    /\ employees = <<>>
    /\ duties = <<>>
    /\ constraints = <<>>
    /\ matrix = {}
    /\ model = <<>>
    /\ values = <<>>
    /\ assignments = <<>>
    /\ status = "NONE"
    /\ results = <<>>
    /\ applied = <<>>
    /\ reported = "NONE"
    /\ slot = "dict"
    /\ error = "none"
    /\ config = NoConfig
    /\ pc = [last |-> "__init__", setup |-> FALSE]

CallAddEmployee ==
    /\ Len(employees) < MaxEmployees
    /\ \E e \in AnyEmployees : add_employee(e)
    /\ pc' = [pc EXCEPT !.last = "add_employee"]

CallAddDuty ==
    /\ Len(duties) < MaxDuties
    /\ \E d \in AnyDuties : add_duty(d)
    /\ pc' = [pc EXCEPT !.last = "add_duty"]

CallAddConstraint ==
    /\ Len(constraints) < MaxConstraints
    /\ \E c \in AnyModules : add_constraint(c)
    /\ pc' = [pc EXCEPT !.last = "add_constraint"]

\* explored as long as no apply() has run: a second setup_model() would
\* put new variables under the keys the constraints already refer to
CallSetupModel ==
    /\ applied = <<>>
    /\ setup_model
    /\ pc' = [last |-> "setup_model", setup |-> TRUE]

CallSolve ==
    /\ solve
    /\ pc' = [pc EXCEPT !.last = "solve"]

CallValidateSolution ==
    /\ validate_solution
    /\ pc' = [pc EXCEPT !.last = "validate_solution"]

NextCalls ==
    \/ CallAddEmployee
    \/ CallAddDuty
    \/ CallAddConstraint
    \/ CallSetupModel
    \/ CallSolve
    \/ CallValidateSolution

SpecCalls == InitCalls /\ [][NextCalls]_vars

\* C16: once solve() has returned, no later call of add_employee, add_duty,
\* add_constraint or setup_model changes the employee list, the duty list,
\* the constraint list or the model.
C16_TerminalStatesFinal ==
    [][status # "NONE" =>
          UNCHANGED <<employees, duties, constraints, model>>]_vars

\* C17: solve() called on a planner on which setup_model() was never called
\* always raises an exception; it never returns a status or a list,
\* whatever employees, duties and constraints have been added.
C17_SolveBeforeSetupRaises ==
    (pc.last = "solve" /\ ~ pc.setup) => error # "none"

\* the employee ids (duty ids) of the list are pairwise distinct
DistinctIds(list) ==
    \A i, j \in 1..Len(list) : list[i].id = list[j].id => i = j

\* C18: after any sequence of add_employee and add_duty calls the employee
\* ids are pairwise distinct and the duty ids are pairwise distinct in the
\* planner's lists, so that no two entries share a decision variable.
C18_NoDuplicateIds ==
    DistinctIds(employees) /\ DistinctIds(duties)

\* C20: validate_solution() raises ValueError in every state in which the
\* planner holds no list of records left by a solve() that returned
\* OPTIMAL or FEASIBLE with at least one record.
C20_ValidateNeedsSolvedList ==
    (/\ pc.last = "validate_solution"
     /\ ~ (slot = "list" /\ status \in OkStatus /\ assignments # <<>>))
        => error = "ValueError"
----------------------------------------------------------------------------
(* validate_solution(): the entries of the result *)

ValidationDuties ==
    {Duty(id, 1, 1, 1, w.start, w.end) : id \in 0..MaxDuties, w \in {Early, Late}}

\* RestTimeConstraint registered with min_rest_hours 8 and with 12, and a
\* module of another class
ValidationModules ==
    {Module("RestTimeConstraint", Planner, DefaultMinRestHours),
     Module("RestTimeConstraint", Planner, DefaultMinRestHours + 4),
     Module("RequiredEmployeesConstraint", Planner, DefaultMinRestHours)}

NextValidation ==
    \/ LoadEmployee(PlainEmployees)
    \/ LoadDuty(ValidationDuties)
    \/ RegisterSeveral(ValidationModules)
    \/ Setup
    \/ Solve
    \/ ValidateSolution

SpecValidation == Init /\ [][NextValidation]_vars

\* C19: validate_solution() returns a mapping with exactly one boolean
\* entry per registered module, each equal to that module's own validate()
\* on the planner's assignment list, for every sequence of add_constraint
\* calls, the same class registered twice with different parameters
\* included.
C19_OneEntryPerModule ==
    (pc = "validated" /\ error = "none") =>
        /\ Cardinality(DOMAIN results) = Len(constraints)
        /\ \A k \in 1..Len(constraints) :
              results[constraints[k].kind]
                 = Validate(constraints[k], employees, duties, assignments)
----------------------------------------------------------------------------
(* validate() on a list that names ids the module does not know *)

UnknownIdDuties == {Duty(id, 1, 1, 1, Early.start, Early.end) : id \in 0..MaxDuties}

UnknownIdModules ==
    {Module("BlockedDaysConstraint", Planner, DefaultMinRestHours),
     Module("RequiredEmployeesConstraint", Standalone, DefaultMinRestHours),
     Module("MaxWorkingHoursInPeriodConstraints", Planner,
            DefaultMinRestHours)}

\* the module is built over at most MaxEmployees - 1 employees and
\* MaxDuties - 1 duties, the records name up to MaxEmployees employees and
\* any of MaxDuties + 1 duty ids
InitUnknownIds ==
    InitProbe(EmployeeLists(PlainEmployees, MaxEmployees - 1),
              DutyLists(UnknownIdDuties, MaxDuties - 1),
              {<<c>> : c \in UnknownIdModules},
              ListsOf({RecordFor(d, es) :
                          d \in UnknownIdDuties,
                          es \in Crews(MaxEmployees) \ {<<>>}},
                      MaxRecords))

SpecUnknownIds == InitUnknownIds /\ [][CallValidate]_vars

\* the list names a duty id or an employee id that is not in the lists
ReferencesUnknownId(emps, dts, list) ==
    \E r \in Range(list) :
        \/ \A i \in 1..Len(dts) : dts[i].id # r.duty_id
        \/ \E x \in Range(r.employees) :
              \A j \in 1..Len(emps) : emps[j].id # x.employee_id

\* C21: validate() given a list that references a duty id or an employee
\* id absent from the module's duty or employee list raises an exception;
\* no module returns true or false for such a list.
C21_UnknownIdRaises ==
    (pc = "validated" /\ ReferencesUnknownId(employees, duties, assignments))
        => error # "none"
----------------------------------------------------------------------------
(* solve() called a second time *)

\* the caller calls solve() once more on the planner it has solved
SolveAgain ==
    /\ pc = "solved"
    /\ solve
    /\ pc' = "solved again"

NextSolveAgain ==
    \/ Run(PlainEmployees, StatusDuties, StatusModules)
    \/ SolveAgain

SpecSolveAgain == Init /\ [][NextSolveAgain]_vars

\* C22: a second solve() on the same modeled planner completes and again
\* yields the status and the assignment list projected from the solver's
\* values, whether the first call returned OPTIMAL/FEASIBLE or INFEASIBLE.
C22_SolveAgainCompletes ==
    pc = "solved again" =>
        /\ error = "none"
        /\ status \in OkStatus =>
              assignments = Project(employees, duties, values)
        /\ status = "INFEASIBLE" => assignments = <<>>
----------------------------------------------------------------------------
(* solve(): the list is the projection of the variables *)

\* the positions in the employee list whose variable for the duty is true
TrueFor(d) ==
    {j \in 1..Len(employees) : values[<<employees[j].id, d.id>>] = 1}

\* C23: on OPTIMAL/FEASIBLE the list has exactly one record for each duty
\* with at least one true variable and none for a duty without, and the
\* record lists exactly the employees (id and name) whose variable for the
\* duty is true, each once, in employee-list order.
C23_FaithfulProjection ==
    (pc = "solved" /\ status \in OkStatus) =>
        /\ \A i \in 1..Len(duties) :
              LET on == SortedSeqOf(TrueFor(duties[i]))
                  rs == RecordsOf(assignments, duties[i].id)
              IN IF on = <<>> THEN rs = <<>>
                 ELSE /\ Len(rs) = 1
                      /\ rs[1].employees =
                            [x \in 1..Len(on) |-> Listed(employees[on[x]])]
        /\ \A r \in Range(assignments) :
              \E i \in 1..Len(duties) : duties[i].id = r.duty_id

C23_Witness ==
    /\ pc = "solved" /\ status = "FEASIBLE"
    /\ Len(duties) = 2 /\ Len(employees) = 2
    /\ TrueFor(duties[1]) = {}
    /\ TrueFor(duties[2]) = {1, 2}
    /\ Len(assignments) = 1
    /\ Len(assignments[1].employees) = 2
----------------------------------------------------------------------------
(* solve(): the order of the list *)

\* one employee, so that a valuation is the set of duties with a record
OrderEmployees == {Employee(0, 1, {})}

\* duties that differ in date, code and start time, loaded in any order
OrderDuties ==
    {Duty(id, code, date, 1, w.start, w.end) :
        id \in 0..MaxDuties, code \in {1, 2}, date \in {1, 2},
        w \in {Early, Late}}

OrderModules ==
    {Module("RequiredEmployeesConstraint", Planner, DefaultMinRestHours)}

NextOrder == Run(OrderEmployees, OrderDuties, OrderModules)

SpecOrder == Init /\ [][NextOrder]_vars

\* the sort key of a record and its lexicographic order
SortKey(r) == <<r.date, r.duty_code, r.start_time>>

KeyBefore(k, l) ==
    \/ k[1] < l[1]
    \/ k[1] = l[1] /\ k[2] < l[2]
    \/ k[1] = l[1] /\ k[2] = l[2] /\ k[3] < l[3]

\* the position of the duty of a record in the duty list
DutyPosition(r) == CHOOSE i \in 1..Len(duties) : duties[i].id = r.duty_id

----------------------------------------------------------------------------
(* validate() called twice *)

PurityEmployees ==
    {Employee(id, 1, b) : id \in 0..MaxEmployees, b \in {{}, {1}}}

PurityModules ==
    {Module(kind, Planner, DefaultMinRestHours) :
        kind \in {"RequiredEmployeesConstraint", "BlockedDaysConstraint",
                  "OneDutyPerDayConstraint", "RestTimeConstraint",
                  "MaxDaysInARowConstraint",
                  "MaxWorkingHoursInPeriodConstraints"}}
      \cup {Module("RestTimeConstraint", Standalone, DefaultMinRestHours),
            BalanceModule(Standalone, DefaultMaxDeviationPercent)}

\* every module built over MaxEmployees employees and the roster, given
\* lists of records of the roster's duties in any order
InitPurity ==
    InitProbe({l \in EmployeeLists(PurityEmployees, MaxEmployees) :
                  Len(l) = MaxEmployees},
              {HoursRoster},
              {<<c>> : c \in PurityModules},
              ListsOf({RecordFor(HoursRoster[i], es) :
                          i \in 1..Len(HoursRoster),
                          es \in Crews(MaxEmployees) \ {<<>>}},
                      MaxRecords))

\* validate() called once more on the same list
CallValidateAgain ==
    /\ pc = "validated"
    /\ LET raising == {k \in 1..Len(constraints) :
               ValidateRaises(constraints[k], employees, duties, assignments)}
       IN IF raising # {}
          THEN /\ error' = ValidateError(
                     constraints[CHOOSE k \in raising :
                                    \A l \in raising : k <= l],
                     employees, duties, assignments)
               /\ results' = results
          ELSE error' = "none" /\ results' = ValidationResults
    /\ pc' = "validated again"
    /\ UNCHANGED <<config, employees, duties, constraints, matrix, model, values,
                   assignments, status, applied, reported, slot>>

NextPurity == CallValidate \/ CallValidateAgain

SpecPurity == InitPurity /\ [][NextPurity]_vars

----------------------------------------------------------------------------
(* ConfigLoader: the duty templates expanded over the horizon *)

\* a duty template of the configuration file
Template(code, w) ==
    [code |-> code, start_time |-> w.start, end_time |-> w.end,
     required_employees |-> 1]

Templates == {Template(1, Early), Template(2, Late), Template(3, Night)}

\* configurations with up to MaxDuties templates and a horizon within
\* 1..MaxDate, an empty horizon included
Configs ==
    {[start_date |-> s, end_date |-> e, duties |-> t] :
        s \in Dates, e \in Dates, t \in SeqsUpTo(Templates, MaxDuties)}

InitExpand ==
    /\ config \in Configs
    /\ employees = <<>>
    /\ duties = <<>>
    /\ constraints = <<>>
    /\ matrix = {}
    /\ model = <<>>
    /\ values = <<>>
    /\ assignments = <<>>
    /\ status = "NONE"
    /\ results = <<>>
    /\ applied = <<>>
    /\ reported = "NONE"
    /\ slot = "dict"
    /\ error = "none"
    /\ pc = "configured"

\* expanded_duties = loader._expand_duties(config)
ExpandDuties ==
    /\ pc = "configured"
    /\ duties' = expand_duties(config)
    /\ pc' = "expanded"
    /\ UNCHANGED <<config, employees, constraints, matrix, model, values,
                   assignments, status, results, applied, reported, slot,
                   error>>

SpecExpand == InitExpand /\ [][ExpandDuties]_vars

\* the number of calendar days from start_date to end_date, both included
HorizonDays(cfg) ==
    IF cfg.end_date >= cfg.start_date
    THEN cfg.end_date - cfg.start_date + 1 ELSE 0

\* C26: for a horizon of n days and k templates _expand_duties returns
\* exactly n*k duties with the ids 0, 1, ..., n*k-1 in date-major,
\* template-minor order, each with a date inside the horizon and the code
\* and time window of its template; the templates are not modified.
C26_ExpandDuties ==
    [][pc' = "expanded" =>
          LET k == Len(config.duties)
              n == HorizonDays(config)
          IN /\ config' = config
             /\ Len(duties') = n * k
             /\ \A i \in 1..Len(duties') :
                   LET t == config.duties[((i - 1) % k) + 1]
                   IN /\ duties'[i].id = i - 1
                      /\ duties'[i].date = config.start_date + ((i - 1) \div k)
                      /\ duties'[i].date \in
                            config.start_date..config.end_date
                      /\ duties'[i].code = t.code
                      /\ duties'[i].start_time = t.start_time
                      /\ duties'[i].end_time = t.end_time]_vars

C26_Witness ==
    /\ pc = "expanded"
    /\ config.start_date = 2
    /\ config.end_date = 3
    /\ Len(config.duties) = 2
    /\ config.duties[1] # config.duties[2]
    /\ Len(duties) = 4
    /\ duties[4].id = 3
----------------------------------------------------------------------------
(* RestTimeConstraint (src/resource_planner): validate against apply *)

\* MaxDuties + 1 duties, each with any of four windows
RestRosters ==
    {[i \in 1..(MaxDuties + 1) |->
         Duty(i - 1, 1, 1, 1, w[i].start, w[i].end)] :
       w \in [1..(MaxDuties + 1) -> {Early, Office, Late, Night}]}

\* the module built over one employee and a roster, and a list that gives
\* the employee any of the roster's duties, in any order
InitRestPairs ==
    /\ employees = <<Employee(0, 1, {})>>
    /\ duties \in RestRosters
    /\ constraints =
          <<Module("RestTimeConstraint", Planner, DefaultMinRestHours)>>
    /\ assignments \in
          ListsOf({RecordFor(duties[i], employees) : i \in 1..Len(duties)},
                  MaxRecords + 1)
    /\ matrix = {}
    /\ model = <<>>
    /\ values = <<>>
    /\ status = "NONE"
    /\ results = <<>>
    /\ applied = <<>>
    /\ reported = "NONE"
    /\ slot = "list"
    /\ error = "none"
    /\ config = NoConfig
    /\ pc = "probe"

SpecRestPairs == InitRestPairs /\ [][CallValidate]_vars

\* the employee is given two distinct duties with a positive gap below
\* minRest from the end of one to the start of the other, as apply()
\* computes the gap
ForbiddenPair(dts, list, employeeId, minRest) ==
    \E a, b \in Range(RecordsWith(list, employeeId)) :
        LET diff == DutyTimes(dts, b.duty_id).start
                      - DutyTimes(dts, a.duty_id).end
        IN a.duty_id # b.duty_id /\ 0 < diff /\ diff < minRest

\* C27: if RestTimeConstraint.validate returns true, no employee has two
\* distinct assigned duties d1, d2 with 0 < d2.start - d1.end <
\* min_rest_minutes, pairs that are not adjacent in start order included.
C27_ValidateNeverAcceptsForbidden ==
    (pc = "validated" /\ error = "none" /\ results["RestTimeConstraint"])
        => \A j \in 1..Len(employees) :
              ~ ForbiddenPair(duties, assignments, employees[j].id,
                              constraints[1].min_rest_minutes)
----------------------------------------------------------------------------
(* MaxDaysInARowConstraint: apply against validate on any assignment *)

\* the module built over loaded employees and duties; the variables take
\* any values and the list is their projection, as solve() would build it
InitDaysAgree ==
    /\ employees \in {l \in EmployeeLists(RowEmployees, MaxEmployees) :
                         Len(l) >= 1}
    /\ duties \in DutyLists(RowDuties, MaxDuties)
    /\ constraints = <<Module("MaxDaysInARowConstraint", Planner,
                              DefaultMinRestHours)>>
    /\ matrix = Pairs
    /\ values \in [matrix -> {0, 1}]
    /\ assignments = Project(employees, duties, values)
    /\ model = MaxDaysInARowApply(employees, duties)
    /\ status = "NONE"
    /\ results = <<>>
    /\ applied = <<>>
    /\ reported = "NONE"
    /\ slot = "list"
    /\ error = "none"
    /\ config = NoConfig
    /\ pc = "probe"

SpecDaysAgree == InitDaysAgree /\ [][CallValidate]_vars

\* C28: an assignment satisfies every window constraint added by
\* MaxDaysInARowConstraint.apply() if and only if validate() returns true
\* for the corresponding list, assignments with several duties of an
\* employee on one date included.
C28_ApplyIffValidate ==
    pc = "validated" =>
        (Satisfies(values, model) <=> results["MaxDaysInARowConstraint"])

----------------------------------------------------------------------------
(* WorkloadBalanceConstraint.apply: what the model fixes *)

\* C29: WorkloadBalanceConstraint.apply() never removes an assignment from
\* the feasible set: with no other module registered every assignment of
\* employees to duties is feasible in the model, also when an employee's
\* assigned minutes exceed max_hours_in_period * 60.
C29_BalanceIsPreferenceOnly ==
    (pc = "modeled" /\ Registered("WorkloadBalanceConstraint")
        /\ employees # <<>>)
    => \A val \in [matrix -> {0, 1}] : Satisfies(val, model)

\* the minutes of the duties the solver's values give the employee
SolvedMinutes(e) ==
    SumSeq([i \in 1..Len(duties) |->
               duties[i].working_minutes * values[<<e.id, duties[i].id>>]])

\* the objective entry WorkloadBalanceConstraint.apply() added
BalanceObjective ==
    LET os == SelectSeq(model, LAMBDA c : c.op = "minimize")
    IN os[Len(os)]

\* C30: in the model built by WorkloadBalanceConstraint.apply() each
\* employee's utilization variable equals floor(100 * assigned_minutes /
\* (max_hours_in_period * 60)), in 0..100, the scaled average equals
\* floor(1000 * sum of utilizations / number of employees), and the
\* minimized variable is at least |1000 * utilization - average| for every
\* employee.
C30_UtilizationIsPercentage ==
    (pc = "solved" /\ status \in OkStatus
        /\ Registered("WorkloadBalanceConstraint"))
    => LET o == BalanceObjective
           n == Len(employees)
           u(j) == UtilizationValue(o.loads[j], values)
           avg == AverageValue(o, values)
       IN /\ \A j \in 1..n :
                /\ u(j) = (100 * SolvedMinutes(employees[j]))
                             \div (employees[j].max_hours_in_period
                                     * MinutesPerHour)
                /\ u(j) \in 0..100
          /\ avg = (1000 * SumSeq([j \in 1..n |-> u(j)])) \div n
          /\ \A j \in 1..n :
                /\ ObjectiveValue(o, values) >= 1000 * u(j) - avg
                /\ ObjectiveValue(o, values) >= avg - 1000 * u(j)

============================================================================
